---------------------------- MODULE Spec2Model ----------------------------
(***************************************************************************)
(* Model of src/app.py: a Flask view `proxy` that relays requests under    *)
(* /_matrix/client/v3/ to the homeserver MATRIX_BASE with requests.request *)
(* and relays the answer back.                                             *)
(*                                                                         *)
(* A header name is a sequence of one-character strings, so that the case  *)
(* conversions of the code (str.lower, the Title-Case keys of              *)
(* request.headers) are computed character by character.  A body is a      *)
(* sequence of byte values 0..255.  A URL path is a sequence of segments.  *)
(***************************************************************************)
EXTENDS Integers, Sequences, FiniteSets, TLC

VARIABLES
    matrix_base,  \* the module global MATRIX_BASE
    pc,           \* pc[u]: where handling unit u stands
    request,      \* request[u]: the inbound request bound to unit u (flask.request)
    logged,       \* logged[u]: the text printed on the "Body:" line of the first block
    sent,         \* sent[u]: the arguments of the requests.request call
    exchanges,    \* exchanges[u]: the upstream answers of the call, one per exchange
    resp,         \* resp[u]: the local `resp`, what requests.request returned
    returned,     \* returned[u]: what the caller of unit u received
    trace         \* the events of all units, in the order they happened

vars == <<matrix_base, pc, request, logged, sent, exchanges, resp, returned, trace>>

----------------------------------------------------------------------------
(* Bounds of the model *)

MaxArgs == 2         \* query pairs of an inbound request
MaxHeaders == 2      \* header lines of an inbound request
MaxBody == 2         \* bytes of an inbound body
MaxRespHeaders == 2  \* header lines of an upstream response
MaxRedirects == 1    \* redirects the upstream answers with in one call

None == [none |-> TRUE]

----------------------------------------------------------------------------
(* Characters and case conversion *)

LowerChars == <<"a","b","c","d","e","f","g","h","i","j","k","l","m",
                "n","o","p","q","r","s","t","u","v","w","x","y","z">>
UpperChars == <<"A","B","C","D","E","F","G","H","I","J","K","L","M",
                "N","O","P","Q","R","S","T","U","V","W","X","Y","Z">>

IsLowerChar(c) == \E i \in 1..Len(LowerChars) : LowerChars[i] = c
IsUpperChar(c) == \E i \in 1..Len(UpperChars) : UpperChars[i] = c
IsCased(c) == IsLowerChar(c) \/ IsUpperChar(c)

LowerChar(c) ==
    IF IsUpperChar(c)
    THEN LowerChars[CHOOSE i \in 1..Len(UpperChars) : UpperChars[i] = c]
    ELSE c

UpperChar(c) ==
    IF IsLowerChar(c)
    THEN UpperChars[CHOOSE i \in 1..Len(LowerChars) : LowerChars[i] = c]
    ELSE c

\* str.lower()
Lower(s) == [i \in 1..Len(s) |-> LowerChar(s[i])]

\* str.upper()
Upper(s) == [i \in 1..Len(s) |-> UpperChar(s[i])]

\* str.title(): a cased character is upper case after an uncased one (or at
\* the start) and lower case after a cased one
Title(s) ==
    [i \in 1..Len(s) |->
        IF i = 1 \/ ~IsCased(s[i-1]) THEN UpperChar(s[i]) ELSE LowerChar(s[i])]

\* str.replace(a, b) for single characters
Replace(s, a, b) == [i \in 1..Len(s) |-> IF s[i] = a THEN b ELSE s[i]]

----------------------------------------------------------------------------
(* Ordered dictionaries as sequences of <<key, value>> pairs *)

RECURSIVE DictSet(_, _, _)
\* d[k] = v on an insertion-ordered dict: overwrite in place, or append
DictSet(d, k, v) ==
    IF d = <<>> THEN << <<k, v>> >>
    ELSE IF d[1][1] = k THEN << <<k, v>> >> \o Tail(d)
    ELSE <<d[1]>> \o DictSet(Tail(d), k, v)

RECURSIVE DictOf(_)
\* dict(pairs)
DictOf(pairs) ==
    IF pairs = <<>> THEN <<>>
    ELSE LET n == Len(pairs)
         IN DictSet(DictOf(SubSeq(pairs, 1, n - 1)), pairs[n][1], pairs[n][2])

RECURSIVE DictPop(_, _)
\* d.pop(k, None): the dict without the entry whose key is exactly k
DictPop(d, k) ==
    IF d = <<>> THEN <<>>
    ELSE IF d[1][1] = k THEN Tail(d)
    ELSE <<d[1]>> \o DictPop(Tail(d), k)

----------------------------------------------------------------------------
(* Header names *)

H_Host == <<"H","o","s","t">>
H_ContentLength == <<"C","o","n","t","e","n","t","-","L","e","n","g","t","h">>
HttpPrefix == <<"H","T","T","P","_">>

\* the key a WSGI server stores a header line under in environ: upper case,
\* "-" as "_", prefixed HTTP_ except for Content-Type and Content-Length
EnvironKey(name) ==
    LET k == Replace(Upper(name), "-", "_")
    IN IF k \in {<<"C","O","N","T","E","N","T","_","T","Y","P","E">>, <<"C","O","N","T","E","N","T","_","L","E","N","G","T","H">>} THEN k ELSE HttpPrefix \o k

\* the key request.headers yields for an environ key (an empty sequence: the
\* entry is not a header)
HeaderKey(k) ==
    IF Len(k) > 5 /\ SubSeq(k, 1, 5) = HttpPrefix
       /\ k \notin {<<"H","T","T","P","_","C","O","N","T","E","N","T","_","T","Y","P","E">>, <<"H","T","T","P","_","C","O","N","T","E","N","T","_","L","E","N","G","T","H">>}
    THEN Title(Replace(SubSeq(k, 6, Len(k)), "_", "-"))
    ELSE IF k \in {<<"C","O","N","T","E","N","T","_","T","Y","P","E">>, <<"C","O","N","T","E","N","T","_","L","E","N","G","T","H">>}
    THEN Title(Replace(k, "_", "-"))
    ELSE <<>>

\* request.headers.items() for the header lines `wire` of the inbound request
RequestHeaders(wire) ==
    LET environ == DictOf([i \in 1..Len(wire) |-> <<EnvironKey(wire[i][1]), wire[i][2]>>])
        items == [i \in 1..Len(environ) |-> <<HeaderKey(environ[i][1]), environ[i][2]>>]
    IN SelectSeq(items, LAMBDA kv : kv[1] # <<>> /\ kv[2] # "")

\* the same on header names kept as the client wrote them
OutboundHeadersRawCase(wire) ==
    DictPop(DictPop(DictOf(wire), H_Host), H_ContentLength)

\* lines 25-31: headers = dict(request.headers) without "Host" and "Content-Length"
OutboundHeaders(wire) ==
    DictPop(DictPop(DictOf(RequestHeaders(wire)), H_Host), H_ContentLength)

\* line 57
excluded_headers ==
    {<<"c","o","n","t","e","n","t","-","e","n","c","o","d","i","n","g">>,
     <<"c","o","n","t","e","n","t","-","l","e","n","g","t","h">>,
     <<"t","r","a","n","s","f","e","r","-","e","n","c","o","d","i","n","g">>,
     <<"c","o","n","n","e","c","t","i","o","n">>}

\* the same with the key compared as the upstream wrote it
ResponseHeadersCaseSensitive(items) ==
    DictOf(SelectSeq(items, LAMBDA kv : kv[1] \notin excluded_headers))

\* lines 58 and 60: dict of the items of resp.headers whose lower-cased key is
\* not excluded
ResponseHeaders(items) ==
    DictOf(SelectSeq(items, LAMBDA kv : Lower(kv[1]) \notin excluded_headers))

----------------------------------------------------------------------------
(* Query parameters *)

RECURSIVE FirstValues(_, _)
\* MultiDict.items(): one pair per key, with the first value of the key, in
\* the order the keys first occur
FirstValues(pairs, seen) ==
    IF pairs = <<>> THEN <<>>
    ELSE IF pairs[1][1] \in seen THEN FirstValues(Tail(pairs), seen)
    ELSE <<pairs[1]>> \o FirstValues(Tail(pairs), seen \cup {pairs[1][1]})

\* line 42: params=request.args.  requests turns a mapping into its .items(),
\* and request.args is a MultiDict of the pairs of the query string
ForwardedParams(args) == FirstValues(args, {})

----------------------------------------------------------------------------
(* Bodies *)

IsContinuation(b) == b >= 128 /\ b <= 191
IsLead2(b) == b >= 194 /\ b <= 223

RECURSIVE Utf8DecodeIgnore(_)
\* bytes.decode("utf-8", errors="ignore") on one- and two-byte sequences: the
\* code points of the well-formed sequences, every other byte dropped
Utf8DecodeIgnore(bytes) ==
    IF bytes = <<>> THEN <<>>
    ELSE IF bytes[1] < 128 THEN <<bytes[1]>> \o Utf8DecodeIgnore(Tail(bytes))
    ELSE IF IsLead2(bytes[1]) /\ Len(bytes) >= 2 /\ IsContinuation(bytes[2])
    THEN <<(bytes[1] - 192) * 64 + (bytes[2] - 128)>>
         \o Utf8DecodeIgnore(SubSeq(bytes, 3, Len(bytes)))
    ELSE Utf8DecodeIgnore(Tail(bytes))

RECURSIVE Utf8Encode(_)
\* str.encode("utf-8") for code points below 2048
Utf8Encode(text) ==
    IF text = <<>> THEN <<>>
    ELSE IF text[1] < 128 THEN <<text[1]>> \o Utf8Encode(Tail(text))
    ELSE <<192 + (text[1] \div 64), 128 + (text[1] % 64)>> \o Utf8Encode(Tail(text))

\* line 21: the text of the "Body:" log line
LoggedBody(body) == Utf8DecodeIgnore(body)

\* a forwarding that sends the text of the log line instead of the bytes
ForwardedBodyDecoded(body) == Utf8Encode(Utf8DecodeIgnore(body))

\* lines 20 and 41: data=body, the bytes of request.get_data()
ForwardedBody(body) == body

----------------------------------------------------------------------------
(* Routing and the upstream URL *)

ApiPrefix == <<"_matrix", "client", "v3">>

RECURSIVE Join(_)
\* "/".join(segments)
Join(segments) ==
    IF segments = <<>> THEN ""
    ELSE IF Len(segments) = 1 THEN segments[1]
    ELSE segments[1] \o "/" \o Join(Tail(segments))

\* line 8: the rule "/_matrix/client/v3/<path:path>" matches a path with a
\* non-empty remainder after the prefix
MatchesRule(path) ==
    /\ Len(path) > Len(ApiPrefix)
    /\ SubSeq(path, 1, Len(ApiPrefix)) = ApiPrefix
    /\ path[Len(ApiPrefix) + 1] # ""

\* the view argument `path`
CapturedPath(path) == Join(SubSeq(path, Len(ApiPrefix) + 1, Len(path)))

\* line 8: methods=[...]
DeclaredMethods == {"GET", "PUT", "POST"}

\* the methods the rule dispatches to the view: a rule that lists GET also
\* takes HEAD
RuleMethods == DeclaredMethods \cup (IF "GET" \in DeclaredMethods THEN {"HEAD"} ELSE {})

\* lines 8-9: what the application does with an inbound request
Route(req) ==
    IF ~MatchesRule(req.path) THEN "not_found"
    ELSE IF req.method \in RuleMethods THEN "view"
    ELSE IF req.method = "OPTIONS" THEN "automatic_options"
    ELSE "method_not_allowed"

\* an upstream URL with the dot segments of the path removed
RECURSIVE RemoveDotSegments(_)
RemoveDotSegments(segments) ==
    IF segments = <<>> THEN <<>>
    ELSE LET n == Len(segments)
             init == RemoveDotSegments(SubSeq(segments, 1, n - 1))
         IN IF segments[n] = "." THEN init
            ELSE IF segments[n] = ".."
            THEN (IF init = <<>> THEN <<>> ELSE SubSeq(init, 1, Len(init) - 1))
            ELSE Append(init, segments[n])

UpstreamUrlNormalized(base, path) ==
    base \o "/_matrix/client/v3/"
         \o Join(RemoveDotSegments(SubSeq(path, Len(ApiPrefix) + 1, Len(path))))

\* line 10: upstream_url, for the path of the inbound request
UpstreamUrl(base, path) == base \o "/_matrix/client/v3/" \o CapturedPath(path)

----------------------------------------------------------------------------
(* Inputs: inbound requests and upstream answers *)

SeqsUpTo(S, n) == UNION {[1..k -> S] : k \in 0..n}

Methods == {"GET", "PUT", "POST", "HEAD", "OPTIONS", "DELETE"}

Paths ==
    {<<"_matrix", "client", "v3", "sync">>,
     <<"_matrix", "client", "v3", "rooms", "..", "x">>,
     <<"_matrix", "client", "v3">>,
     <<"health">>}

ArgPairs == {<<"a", "1">>, <<"a", "2">>, <<"b", "1">>}

\* header lines as a client may write them
InboundHeaderLines ==
    {<<<<"h","o","s","t">>, "proxy.local">>,
     <<<<"H","O","S","T">>, "proxy.local">>,
     <<<<"C","o","n","t","e","n","t","-","L","e","n","g","t","h">>, "2">>,
     <<<<"c","o","n","t","e","n","t","-","l","e","n","g","t","h">>, "2">>,
     <<<<"a","u","t","h","o","r","i","z","a","t","i","o","n">>, "Bearer tok123">>}

\* header lines of one message name a header once, whatever the case
DistinctNames(lines) ==
    \A i, j \in 1..Len(lines) : i # j => Lower(lines[i][1]) # Lower(lines[j][1])

InboundHeaders == {h \in SeqsUpTo(InboundHeaderLines, MaxHeaders) : DistinctNames(h)}

\* "A" and the two bytes of U+00E9; each of the two alone is not UTF-8
Bytes == {65, 195, 169}

BaseRequest ==
    [method |-> "POST", path |-> <<"_matrix", "client", "v3", "sync">>,
     args |-> <<>>, headers |-> <<>>, body |-> <<>>]

\* every method on every path, and every query, header set and body on the
\* base request (proxy reads no two of these together)
InboundRequests ==
    {[BaseRequest EXCEPT !.method = m, !.path = p] : m \in Methods, p \in Paths}
    \cup {[BaseRequest EXCEPT !.args = a] : a \in SeqsUpTo(ArgPairs, MaxArgs)}
    \cup {[BaseRequest EXCEPT !.headers = h] : h \in InboundHeaders}
    \cup {[BaseRequest EXCEPT !.body = b] : b \in SeqsUpTo(Bytes, MaxBody)}

\* the items of resp.headers: the header lines of the answer, in the case the
\* upstream wrote them
UpstreamHeaderLines ==
    {<<<<"C","o","n","t","e","n","t","-","E","n","c","o","d","i","n","g">>, "gzip">>,
     <<<<"c","o","n","t","e","n","t","-","l","e","n","g","t","h">>, "2">>,
     <<<<"T","r","a","n","s","f","e","r","-","E","n","c","o","d","i","n","g">>, "chunked">>,
     <<<<"C","O","N","N","E","C","T","I","O","N">>, "keep-alive">>,
     <<<<"C","o","n","t","e","n","t","-","T","y","p","e">>, "application/json">>,
     <<<<"L","o","c","a","t","i","o","n">>, "https://elsewhere.example/">>}

UpstreamHeaders ==
    {h \in SeqsUpTo(UpstreamHeaderLines, MaxRespHeaders) : DistinctNames(h)}

Statuses == {200, 302, 304, 404, 503}

LocationLine == <<<<"L","o","c","a","t","i","o","n">>, "https://elsewhere.example/">>

\* every status with and without a Location, and every header set on a 200
UpstreamResponses ==
    {[status |-> s, headers |-> h, body |-> "{}"] :
        s \in Statuses, h \in {<<>>, <<LocationLine>>}}
    \cup {[status |-> 200, headers |-> h, body |-> "{}"] : h \in UpstreamHeaders}

TransportFailures == {"ConnectionError", "Timeout", "SSLError"}

----------------------------------------------------------------------------
(* requests.request *)

\* requests.models.REDIRECT_STATI
REDIRECT_STATI == {301, 302, 303, 307, 308}

\* Response.is_redirect
IsRedirect(r) ==
    /\ r.status \in REDIRECT_STATI
    /\ \E i \in 1..Len(r.headers) : Lower(r.headers[i][1]) = <<"l","o","c","a","t","i","o","n">>

\* lines 37-44: the call passes no allow_redirects, and requests.request then
\* follows the redirect of an answer
FollowsRedirects(r) == IsRedirect(r)

----------------------------------------------------------------------------
(* The handling units and their steps *)

Units == {1, 2}

Event(u, e) == [unit |-> u, ev |-> e]

\* a `request` kept in one module-level slot: the request accepted last
CurrentRequestShared(u) ==
    LET accepts == {i \in 1..Len(trace) : trace[i].ev = "accept"}
        last == CHOOSE i \in accepts : \A j \in accepts : j <= i
    IN request[trace[last].unit]

\* flask.request inside the view run by unit u: the request of u's own context
CurrentRequest(u) == request[u]

Init ==
    /\ matrix_base = "https://disaccord.cc"
    /\ pc = [u \in Units |-> "idle"]
    /\ request = [u \in Units |-> None]
    /\ logged = [u \in Units |-> None]
    /\ sent = [u \in Units |-> None]
    /\ exchanges = [u \in Units |-> <<>>]
    /\ resp = [u \in Units |-> None]
    /\ returned = [u \in Units |-> None]
    /\ trace = <<>>

\* lines 8-9: the application dispatches a request the rule takes to proxy
Dispatch(u, requests) ==
    /\ pc[u] = "idle"
    /\ \E r \in requests :
        /\ Route(r) = "view"
        /\ request' = [request EXCEPT ![u] = r]
    /\ pc' = [pc EXCEPT ![u] = "view"]
    /\ trace' = Append(trace, Event(u, "accept"))
    /\ UNCHANGED <<matrix_base, logged, sent, exchanges, resp, returned>>

\* line 8: the application answers a request the rule does not dispatch to
\* proxy itself: 404, 405, or the automatic answer to OPTIONS
RejectByRouting(u, requests) ==
    /\ pc[u] = "idle"
    /\ \E r \in requests :
        /\ Route(r) # "view"
        /\ request' = [request EXCEPT ![u] = r]
        /\ returned' = [returned EXCEPT ![u] =
              [status |-> CASE Route(r) = "not_found" -> 404
                            [] Route(r) = "method_not_allowed" -> 405
                            [] OTHER -> 200,
               headers |-> <<>>, body |-> ""]]
    /\ pc' = [pc EXCEPT ![u] = "done"]
    /\ trace' = Append(trace, Event(u, "reject"))
    /\ UNCHANGED <<matrix_base, logged, sent, exchanges, resp>>

\* lines 10-22: upstream_url, body, and the first log block
LogInbound(u) ==
    /\ pc[u] = "view"
    /\ logged' = [logged EXCEPT ![u] =
          [method |-> CurrentRequest(u).method,
           upstream_url |-> UpstreamUrl(matrix_base, CurrentRequest(u).path),
           headers |-> RequestHeaders(CurrentRequest(u).headers),
           body |-> LoggedBody(CurrentRequest(u).body)]]
    /\ pc' = [pc EXCEPT ![u] = "logged"]
    /\ trace' = Append(trace, Event(u, "log_inbound"))
    /\ UNCHANGED <<matrix_base, request, sent, exchanges, resp, returned>>

\* lines 25-44: the outbound headers and the requests.request call
SendUpstream(u) ==
    /\ pc[u] = "logged"
    /\ sent' = [sent EXCEPT ![u] =
          [method |-> CurrentRequest(u).method,
           url |-> UpstreamUrl(matrix_base, CurrentRequest(u).path),
           headers |-> OutboundHeaders(CurrentRequest(u).headers),
           data |-> ForwardedBody(CurrentRequest(u).body),
           params |-> ForwardedParams(CurrentRequest(u).args)]]
    /\ pc' = [pc EXCEPT ![u] = "calling"]
    /\ trace' = Append(trace, Event(u, "send"))
    /\ UNCHANGED <<matrix_base, request, logged, exchanges, resp, returned>>

\* lines 37-44: the upstream answers the exchange in progress; the call goes on
\* to the next exchange when it follows a redirect, and returns otherwise
UpstreamAnswer(u, answers) ==
    /\ pc[u] = "calling"
    /\ \E a \in answers :
        /\ FollowsRedirects(a) => Len(exchanges[u]) < MaxRedirects
        /\ exchanges' = [exchanges EXCEPT ![u] = Append(@, a)]
        /\ IF FollowsRedirects(a)
           THEN UNCHANGED <<pc, resp, trace>>
           ELSE /\ resp' = [resp EXCEPT ![u] = a]
                /\ pc' = [pc EXCEPT ![u] = "received"]
                /\ trace' = Append(trace, Event(u, "recv"))
    /\ UNCHANGED <<matrix_base, request, logged, sent, returned>>

\* lines 37-44: the exchange in progress fails in the transport; the call
\* raises, and nothing in proxy catches the exception
UpstreamFail(u, failures) ==
    /\ pc[u] = "calling"
    /\ \E f \in failures : trace' = Append(trace, Event(u, f))
    /\ pc' = [pc EXCEPT ![u] = "raised"]
    /\ UNCHANGED <<matrix_base, request, logged, sent, exchanges, resp, returned>>

\* line 9: the application answers for a view that raised: 500
HandleException(u) ==
    /\ pc[u] = "raised"
    /\ returned' = [returned EXCEPT ![u] =
          [status |-> 500, headers |-> <<>>, body |-> "Internal Server Error"]]
    /\ pc' = [pc EXCEPT ![u] = "done"]
    /\ trace' = Append(trace, Event(u, "error_response"))
    /\ UNCHANGED <<matrix_base, request, logged, sent, exchanges, resp>>

\* lines 47-53: the second log block
LogResponse(u) ==
    /\ pc[u] = "received"
    /\ pc' = [pc EXCEPT ![u] = "logged_response"]
    /\ trace' = Append(trace, Event(u, "log_response"))
    /\ UNCHANGED <<matrix_base, request, logged, sent, exchanges, resp, returned>>

\* lines 57-60: the Response built from resp
Return(u) ==
    /\ pc[u] = "logged_response"
    /\ returned' = [returned EXCEPT ![u] =
          [status |-> resp[u].status,
           headers |-> ResponseHeaders(resp[u].headers),
           body |-> resp[u].body]]
    /\ pc' = [pc EXCEPT ![u] = "done"]
    /\ trace' = Append(trace, Event(u, "return"))
    /\ UNCHANGED <<matrix_base, request, logged, sent, exchanges, resp>>

\* one handling unit, every inbound request and every upstream answer
Next ==
    \/ Dispatch(1, InboundRequests)
    \/ RejectByRouting(1, InboundRequests)
    \/ LogInbound(1)
    \/ SendUpstream(1)
    \/ UpstreamAnswer(1, UpstreamResponses)
    \/ UpstreamFail(1, TransportFailures)
    \/ HandleException(1)
    \/ LogResponse(1)
    \/ Return(1)

Spec == Init /\ [][Next]_vars

\* requests and answers that differ in every part
ConcurrentRequests ==
    {[method |-> "GET", path |-> <<"_matrix", "client", "v3", "sync">>,
      args |-> << <<"a", "1">> >>, headers |-> << <<<<"H","o","s","t">>, "proxy.local">> >>,
      body |-> <<>>],
     [method |-> "PUT", path |-> <<"_matrix", "client", "v3", "rooms", "..", "x">>,
      args |-> << <<"b", "1">> >>,
      headers |-> << <<<<"a","u","t","h","o","r","i","z","a","t","i","o","n">>, "Bearer tok123">> >>,
      body |-> <<65, 169>>],
     [BaseRequest EXCEPT !.method = "DELETE"]}

ConcurrentResponses ==
    {[status |-> 200, headers |-> << <<<<"C","o","n","t","e","n","t","-","T","y","p","e">>, "application/json">> >>,
      body |-> "{}"],
     [status |-> 404, headers |-> << <<<<"c","o","n","t","e","n","t","-","l","e","n","g","t","h">>, "2">> >>, body |-> ""]}

\* the units of a threaded server, their steps interleaved
NextConcurrent ==
    \E u \in Units :
        \/ Dispatch(u, ConcurrentRequests)
        \/ RejectByRouting(u, ConcurrentRequests)
        \/ LogInbound(u)
        \/ SendUpstream(u)
        \/ UpstreamAnswer(u, ConcurrentResponses)
        \/ UpstreamFail(u, {"Timeout"})
        \/ HandleException(u)
        \/ LogResponse(u)
        \/ Return(u)

SpecConcurrent == Init /\ [][NextConcurrent]_vars

----------------------------------------------------------------------------
(* Properties *)

\* the events of unit u, in order
UnitEvents(u) ==
    LET mine == SelectSeq(trace, LAMBDA e : e.unit = u)
    IN [i \in 1..Len(mine) |-> mine[i].ev]

Count(events, e) == Cardinality({i \in 1..Len(events) : events[i] = e})

Position(events, e) == CHOOSE i \in 1..Len(events) : events[i] = e

Range(f) == {f[i] : i \in 1..Len(f)}

\* proxy returned normally for unit u
Relayed(u) == pc[u] = "done" /\ resp[u] # None

\* C1: the status returned to the caller is the status the upstream answered
\* the forwarded request with, whatever that status is
C1_StatusPassthrough ==
    \A u \in Units :
        Relayed(u) => returned[u].status = exchanges[u][1].status

\* C2: a transport failure of the upstream call never leaves proxy as an
\* unhandled exception, and the caller of a failed call receives a gateway
\* failure status
C2_TransportFailureHandled ==
    \A u \in Units :
        /\ pc[u] # "raised"
        /\ (pc[u] = "done" /\ Count(UnitEvents(u), "error_response") > 0)
              => returned[u].status \in {502, 504}

\* C3: the query parameters sent upstream are the inbound pairs, in order,
\* repeated keys included
C3_QueryPreserved ==
    \A u \in Units :
        sent[u] # None => sent[u].params = request[u].args

RequestFiltered == {<<"h","o","s","t">>, <<"c","o","n","t","e","n","t","-","l","e","n","g","t","h">>}

ResponseFiltered ==
    {<<"c","o","n","t","e","n","t","-","e","n","c","o","d","i","n","g">>, <<"c","o","n","t","e","n","t","-","l","e","n","g","t","h">>,
     <<"t","r","a","n","s","f","e","r","-","e","n","c","o","d","i","n","g">>, <<"c","o","n","n","e","c","t","i","o","n">>}

\* C5: the headers relayed to the caller hold none of content-encoding,
\* content-length, transfer-encoding and connection in any case, and hold
\* every other header of the upstream response, and nothing else, unchanged
C5_ResponseHeaders ==
    \A u \in Units :
        Relayed(u) =>
            LET ups == resp[u].headers
                out == returned[u].headers
            IN /\ \A j \in 1..Len(out) : Lower(out[j][1]) \notin ResponseFiltered
               /\ \A i \in 1..Len(ups) :
                     Lower(ups[i][1]) \notin ResponseFiltered => ups[i] \in Range(out)
               /\ Range(out) \subseteq Range(ups)
               /\ Cardinality(Range(out)) = Len(out)

\* C5 witness: the upstream sends CONNECTION and Content-Type; Content-Type
\* alone is relayed
C5_Witness ==
    /\ Relayed(1)
    /\ resp[1].headers = << <<<<"C","O","N","N","E","C","T","I","O","N">>, "keep-alive">>,
                            <<<<"C","o","n","t","e","n","t","-","T","y","p","e">>, "application/json">> >>
    /\ returned[1].headers = << <<<<"C","o","n","t","e","n","t","-","T","y","p","e">>, "application/json">> >>

\* C6: the body sent upstream is the inbound body, byte for byte, also when
\* the bytes are not UTF-8 and the log line dropped some of them
C6_BodyForwarded ==
    \A u \in Units :
        sent[u] # None => sent[u].data = request[u].body

\* C6 witness: the body "A" 0xA9 is logged as "A" and sent whole
C6_Witness ==
    /\ sent[1] # None
    /\ request[1].body = <<65, 169>>
    /\ logged[1].body = <<65>>
    /\ sent[1].data = <<65, 169>>

C8_OnlyDeclaredMethodsHandled ==
    \A u \in Units :
        (/\ request[u] # None
         /\ \/ request[u].method \notin {"GET", "PUT", "POST"}
            \/ ~MatchesRule(request[u].path))
        => /\ logged[u] = None
           /\ sent[u] = None
           /\ Count(UnitEvents(u), "log_inbound") = 0

\* C9: a request proxy handled to its end has exactly two log blocks, the
\* first before the upstream request, the second after the upstream response
\* and before the return, also when the upstream call failed
C9_TwoLogBlocks ==
    \A u \in Units :
        (pc[u] = "done" /\ Count(UnitEvents(u), "accept") = 1) =>
            LET ev == UnitEvents(u)
            IN /\ Count(ev, "log_inbound") = 1
               /\ Count(ev, "log_response") = 1
               /\ Count(ev, "send") = 1
               /\ Position(ev, "log_inbound") < Position(ev, "send")
               /\ Position(ev, "send") < Position(ev, "log_response")
               /\ Position(ev, "log_response") = Len(ev) - 1

\* C10: under every interleaving, what a unit logs and sends upstream is
\* computed from its own request, and what it returns from the answer to its
\* own call
C10_Independent ==
    \A u \in Units :
        /\ logged[u] # None =>
              /\ logged[u].method = request[u].method
              /\ logged[u].upstream_url = UpstreamUrl("https://disaccord.cc", request[u].path)
              /\ logged[u].headers = RequestHeaders(request[u].headers)
              /\ logged[u].body = LoggedBody(request[u].body)
        /\ sent[u] # None =>
              /\ sent[u].method = request[u].method
              /\ sent[u].url = UpstreamUrl("https://disaccord.cc", request[u].path)
              /\ sent[u].headers = OutboundHeaders(request[u].headers)
              /\ sent[u].data = request[u].body
              /\ sent[u].params = ForwardedParams(request[u].args)
        /\ resp[u] # None => resp[u] = exchanges[u][Len(exchanges[u])]
        /\ Relayed(u) =>
              /\ returned[u].status = resp[u].status
              /\ returned[u].body = resp[u].body
              /\ returned[u].headers = ResponseHeaders(resp[u].headers)

\* C10 witness: two units with different requests and different answers, the
\* second accepted while the first was in its upstream call, and done first
C10_Witness ==
    /\ Relayed(1) /\ Relayed(2)
    /\ request[1] # request[2]
    /\ resp[1] # resp[2]
    /\ \E i, j, k, l \in 1..Len(trace) :
          /\ i < j /\ j < k /\ k < l
          /\ trace[i] = Event(1, "send")
          /\ trace[j] = Event(2, "accept")
          /\ trace[k] = Event(2, "return")
          /\ trace[l] = Event(1, "return")

=============================================================================
